---- MODULE Spec2Model ----
(***************************************************************************)
(* Model of pywui-cli: the development run supervisor                      *)
(* (PyWuiBuilder.run/_stream_output in builder.py and the `run` command in *)
(* __init__.py) and the platform packagers of installer.py.                *)
(***************************************************************************)
EXTENDS Integers, Sequences, FiniteSets, TLC

\* ------------------------------------------------------------------ bounds
MaxLines == 2        \* lines the dev server writes to stdout in one session
MaxInterrupts == 2   \* KeyboardInterrupts delivered in one session
MaxCalls == 2        \* packager calls made on one project
PipeCap == 1         \* chunks an OS pipe holds before a write to it blocks
MaxBuilds == 2       \* times the project is frozen in one session

\* ------------------------------------------------- dev-server output lines
\* A line is a sequence of tokens; "SP" is a blank, "NL" the line terminator,
\* "x" any other text.  readline() returns the line with its terminator, and
\* the empty sequence at end of file.
LocalLine == <<"Local:", "SP", "x", "NL">>
NetworkLine == <<"Network:", "SP", "x", "NL">>
NetworkTight == <<"Network:", "x", "NL">>
PlainLine == <<"x", "NL">>
BlankLine == <<"NL">>
Lines == {LocalLine, NetworkLine, NetworkTight, PlainLine, BlankLine}
EOF == <<>>

\* Python's `sub in line`
Contains(sub, line) ==
    \E i \in 1..(Len(line) - Len(sub) + 1) :
        SubSeq(line, i, i + Len(sub) - 1) = sub

\* builder.py line 35: "Local:" in vite_output or "Network: " in vite_output
IsReady(line) ==
    Contains(<<"Local:">>, line) \/ Contains(<<"Network:", "SP">>, line)

\* builder.py line 35: the latch, spawn only while the handle is None
ShouldSpawnNoLatch(line, handle) == IsReady(line)
ShouldSpawn(line, handle) == IsReady(line) /\ handle = "null"

\* the readiness marker as the dev-server contract words it
HasMarker(line) ==
    Contains(<<"Local:">>, line) \/ Contains(<<"Network:">>, line)

\* str.strip(): white space is dropped at both ends and kept inside
White == {"SP", "NL"}
RECURSIVE LStrip(_)
LStrip(line) ==
    IF line # <<>> /\ Head(line) \in White THEN LStrip(Tail(line)) ELSE line
RECURSIVE RStrip(_)
RStrip(line) ==
    IF line # <<>> /\ line[Len(line)] \in White
    THEN RStrip(SubSeq(line, 1, Len(line) - 1))
    ELSE line
Strip(line) == LStrip(RStrip(line))

\* builder.py 42 / __init__.py 180: the message given to echo.info
EchoedNoTag(line) == Strip(line)
Echoed(line) == <<"[Vite]", "SP">> \o Strip(line)

\* ------------------------------------------------------------------- state
VARIABLES
    variant,          \* "builder": PyWuiBuilder.run; "cli": the run command
    pc,               \* position of the supervisor
    vite_process,     \* handle: "null" or "set"
    webview_process,  \* handle: "null" or "set" (python_process in the cli)
    viteAlive,        \* OS process: "none", "running", "exited", "terminated"
    appAlive,
    pipe,             \* dev-server stdout lines written and not yet read
    emitted,          \* number of lines the dev server has written
    vite_output,      \* the line last returned by readline()
    pending,          \* an exception waits to be re-raised after finally
    interrupts,       \* KeyboardInterrupts delivered so far
    appSpawns,        \* Popen calls made for the backend
    viteTerm,         \* terminate() calls on the dev-server handle
    appTerm,          \* terminate() calls on the backend handle
    terminating,      \* "Terminating .." messages emitted
    terminated,       \* "Terminated" messages emitted
    markerRead,       \* a line with a readiness marker has been read
    readyReads,       \* lines read that line 35 of builder.py takes as ready
    failure,          \* the Popen call that raised: "none", "vite", "app"
    strayInterrupts,  \* KeyboardInterrupts delivered outside the try body
    reads,            \* the results of readline(), in order
    log,              \* what echo.info has been given, in order
    errFill           \* chunks the dev server has written to its stderr pipe
                      \* or is writing; above PipeCap the write is blocked

supVars == <<variant, pc, vite_process, webview_process, viteAlive, appAlive,
             pipe, emitted, vite_output, pending, interrupts, appSpawns,
             viteTerm, appTerm, terminating, terminated, markerRead,
             readyReads, failure, strayInterrupts, reads, log, errFill>>

\* state of the packagers: the file system and the last packager call
VARIABLES
    files,            \* paths that exist as regular files or links
    dirs,             \* paths that exist as directories
    files0,           \* `files` as it was when the last call began
    dirs0,            \* `dirs` as it was when the last call began
    call,             \* the last packager call: its arguments and outcome
    calls,            \* packager calls made so far
    bundle,           \* which build the bundle dist/<app>.app is; 0: none
    staged,           \* which build the copy dmg_temp/<app>.app is; 0: none
    image             \* what the disk-image tool was given by the last call

pkgVars == <<files, dirs, files0, dirs0, call, calls, bundle, staged, image>>

\* state of the commands that read the project descriptor
VARIABLES
    config,           \* the project's config mapping
    cfgKind,          \* what is at <cwd>/pywui.conf.json
    host,             \* platform.system()
    wd,               \* working directory of the process
    loaded,           \* outcome of the last _load_config call
    iconResult,       \* outcome of the last _get_icon call
    packed,           \* outcome of the last pack call
    appName           \* the name create_installer hands to the packagers

cmdVars == <<config, cfgKind, host, wd, loaded, iconResult, packed, appName>>

vars == <<supVars, pkgVars, cmdVars>>

procVars == <<vite_process, webview_process, viteAlive, appAlive>>
envVars == <<pipe, emitted, interrupts>>
countVars == <<appSpawns, viteTerm, appTerm, terminating, terminated,
               markerRead, readyReads>>
histVars == <<failure, strayInterrupts, reads, log, errFill>>

TryBody == {"poll_vite", "poll_app", "readline", "check", "sleep",
            "spawn_webview", "echo", "loop_sleep"}
FinallyBody == {"fin_terminating", "fin_term_vite", "fin_term_webview",
                "fin_terminated"}
PreTry == {"spawn_python", "enter_try"}
Ended == {"done", "raised"}

SupInit ==
    /\ variant \in {"builder", "cli"}
    /\ pc = "start"
    /\ vite_process = "null"
    /\ webview_process = "null"
    /\ viteAlive = "none"
    /\ appAlive = "none"
    /\ pipe = <<>>
    /\ emitted = 0
    /\ vite_output = EOF
    /\ pending = FALSE
    /\ interrupts = 0
    /\ appSpawns = 0
    /\ viteTerm = 0
    /\ appTerm = 0
    /\ terminating = 0
    /\ terminated = 0
    /\ markerRead = FALSE
    /\ readyReads = 0
    /\ failure = "none"
    /\ strayInterrupts = 0
    /\ reads = <<>>
    /\ log = <<>>
    /\ errFill = 0

\* ------------------------------------------------------ supervisor: set-up
\* where an exception raised by Popen at position p takes the supervisor:
\* the except clauses (builder.py 58, __init__.py 201) name KeyboardInterrupt
\* only, so inside the try body the finally block runs and the exception
\* goes on; outside the try statement it leaves run() at once
AfterSpawnError(p) == IF p \in TryBody THEN "fin_terminating" ELSE "raised"

\* builder.py 46-53 / __init__.py 185-191: Popen of the dev server
SpawnVite ==
    /\ pc = "start"
    /\ \/ /\ vite_process' = "set"
          /\ viteAlive' = "running"
          /\ pc' = IF variant = "cli" THEN "spawn_python" ELSE "enter_try"
          /\ UNCHANGED failure
       \/ /\ failure' = "vite"
          /\ pc' = AfterSpawnError(pc)
          /\ UNCHANGED <<vite_process, viteAlive>>
    /\ UNCHANGED <<variant, webview_process, appAlive, vite_output, pending>>
    /\ UNCHANGED envVars
    /\ UNCHANGED countVars
    /\ UNCHANGED <<strayInterrupts, reads, log, errFill>>
    /\ UNCHANGED pkgVars
    /\ UNCHANGED cmdVars

\* __init__.py 193-197: the run command spawns the backend right away
SpawnPython ==
    /\ pc = "spawn_python"
    /\ \/ /\ webview_process' = "set"
          /\ appAlive' = "running"
          /\ appSpawns' = appSpawns + 1
          /\ pc' = "enter_try"
          /\ UNCHANGED failure
       \/ /\ failure' = "app"
          /\ pc' = AfterSpawnError(pc)
          /\ UNCHANGED <<webview_process, appAlive, appSpawns>>
    /\ UNCHANGED <<variant, vite_process, viteAlive, vite_output, pending>>
    /\ UNCHANGED envVars
    /\ UNCHANGED <<viteTerm, appTerm, terminating, terminated, markerRead,
                   readyReads>>
    /\ UNCHANGED <<strayInterrupts, reads, log, errFill>>
    /\ UNCHANGED pkgVars
    /\ UNCHANGED cmdVars

\* builder.py 55-57 / __init__.py 198-200: enter the try, call the loop
EnterTry ==
    /\ pc = "enter_try"
    /\ pc' = "poll_vite"
    /\ UNCHANGED <<variant, vite_output, pending>>
    /\ UNCHANGED procVars
    /\ UNCHANGED envVars
    /\ UNCHANGED countVars
    /\ UNCHANGED histVars
    /\ UNCHANGED pkgVars
    /\ UNCHANGED cmdVars

\* -------------------------------------------------- supervisor: the loop
\* builder.py 26-28 / __init__.py 171-173
PollVite ==
    /\ pc = "poll_vite"
    /\ pc' = IF viteAlive # "running" THEN "fin_terminating" ELSE "poll_app"
    /\ UNCHANGED <<variant, vite_output, pending>>
    /\ UNCHANGED procVars
    /\ UNCHANGED envVars
    /\ UNCHANGED countVars
    /\ UNCHANGED histVars
    /\ UNCHANGED pkgVars
    /\ UNCHANGED cmdVars

\* builder.py 30-32 / __init__.py 174-176
PollApp ==
    /\ pc = "poll_app"
    /\ pc' = IF webview_process # "null" /\ appAlive # "running"
             THEN "fin_terminating" ELSE "readline"
    /\ UNCHANGED <<variant, vite_output, pending>>
    /\ UNCHANGED procVars
    /\ UNCHANGED envVars
    /\ UNCHANGED countVars
    /\ UNCHANGED histVars
    /\ UNCHANGED pkgVars
    /\ UNCHANGED cmdVars

\* builder.py 33 / __init__.py 178: blocking readline() on the dev-server
\* stdout; it returns a line when one is there, end of file once the dev
\* server is gone, and blocks otherwise.
Readline ==
    /\ pc = "readline"
    /\ \/ /\ pipe # <<>>
          /\ vite_output' = Head(pipe)
          /\ pipe' = Tail(pipe)
       \/ /\ pipe = <<>>
          /\ viteAlive # "running"
          /\ vite_output' = EOF
          /\ pipe' = pipe
    /\ markerRead' = (markerRead \/ HasMarker(vite_output'))
    /\ readyReads' = readyReads + (IF IsReady(vite_output') THEN 1 ELSE 0)
    /\ reads' = Append(reads, vite_output')
    /\ pc' = "check"
    /\ UNCHANGED <<variant, pending, emitted, interrupts>>
    /\ UNCHANGED procVars
    /\ UNCHANGED <<appSpawns, viteTerm, appTerm, terminating, terminated>>
    /\ UNCHANGED <<failure, strayInterrupts, log, errFill>>
    /\ UNCHANGED pkgVars
    /\ UNCHANGED cmdVars

\* builder.py 34-35 / __init__.py 179
CheckLine ==
    /\ pc = "check"
    /\ pc' = IF vite_output = EOF
             THEN (IF variant = "cli" THEN "loop_sleep" ELSE "poll_vite")
             ELSE IF variant = "builder"
                     /\ ShouldSpawn(vite_output, webview_process)
                  THEN "sleep"
                  ELSE "echo"
    /\ UNCHANGED <<variant, vite_output, pending>>
    /\ UNCHANGED procVars
    /\ UNCHANGED envVars
    /\ UNCHANGED countVars
    /\ UNCHANGED histVars
    /\ UNCHANGED pkgVars
    /\ UNCHANGED cmdVars

\* builder.py 36: time.sleep(1)
GraceSleep ==
    /\ pc = "sleep"
    /\ pc' = "spawn_webview"
    /\ UNCHANGED <<variant, vite_output, pending>>
    /\ UNCHANGED procVars
    /\ UNCHANGED envVars
    /\ UNCHANGED countVars
    /\ UNCHANGED histVars
    /\ UNCHANGED pkgVars
    /\ UNCHANGED cmdVars

\* builder.py 37-41: Popen of the backend
SpawnWebview ==
    /\ pc = "spawn_webview"
    /\ \/ /\ webview_process' = "set"
          /\ appAlive' = "running"
          /\ appSpawns' = appSpawns + 1
          /\ pc' = "echo"
          /\ UNCHANGED <<failure, pending>>
       \/ /\ failure' = "app"
          /\ pc' = AfterSpawnError(pc)
          /\ pending' = TRUE
          /\ UNCHANGED <<webview_process, appAlive, appSpawns>>
    /\ UNCHANGED <<variant, vite_process, viteAlive, vite_output>>
    /\ UNCHANGED envVars
    /\ UNCHANGED <<viteTerm, appTerm, terminating, terminated, markerRead,
                   readyReads>>
    /\ UNCHANGED <<strayInterrupts, reads, log, errFill>>
    /\ UNCHANGED pkgVars
    /\ UNCHANGED cmdVars

\* builder.py 42 / __init__.py 180
EchoLine ==
    /\ pc = "echo"
    /\ log' = Append(log, Echoed(vite_output))
    /\ pc' = IF variant = "cli" THEN "loop_sleep" ELSE "poll_vite"
    /\ UNCHANGED <<variant, vite_output, pending>>
    /\ UNCHANGED procVars
    /\ UNCHANGED envVars
    /\ UNCHANGED countVars
    /\ UNCHANGED <<failure, strayInterrupts, reads, errFill>>
    /\ UNCHANGED pkgVars
    /\ UNCHANGED cmdVars

\* __init__.py 181: time.sleep(0.1)
LoopSleep ==
    /\ pc = "loop_sleep"
    /\ pc' = "poll_vite"
    /\ UNCHANGED <<variant, vite_output, pending>>
    /\ UNCHANGED procVars
    /\ UNCHANGED envVars
    /\ UNCHANGED countVars
    /\ UNCHANGED histVars
    /\ UNCHANGED pkgVars
    /\ UNCHANGED cmdVars

\* ---------------------------------------------- supervisor: the shutdown
\* builder.py 58-59 / __init__.py 201-202
ExceptHandler ==
    /\ pc = "except"
    /\ pc' = "fin_terminating"
    /\ UNCHANGED <<variant, vite_output, pending>>
    /\ UNCHANGED procVars
    /\ UNCHANGED envVars
    /\ UNCHANGED countVars
    /\ UNCHANGED histVars
    /\ UNCHANGED pkgVars
    /\ UNCHANGED cmdVars

\* builder.py 62 / __init__.py 206
FinallyTerminating ==
    /\ pc = "fin_terminating"
    /\ terminating' = terminating + 1
    /\ pc' = "fin_term_vite"
    /\ UNCHANGED <<variant, vite_output, pending>>
    /\ UNCHANGED procVars
    /\ UNCHANGED envVars
    /\ UNCHANGED <<appSpawns, viteTerm, appTerm, terminated, markerRead,
                   readyReads>>
    /\ UNCHANGED histVars
    /\ UNCHANGED pkgVars
    /\ UNCHANGED cmdVars

\* Popen.terminate(): signals a live process, does nothing to a dead one
Terminate(alive) == IF alive = "running" THEN "terminated" ELSE alive

\* builder.py 63-64 / __init__.py 207
TerminateVite ==
    /\ pc = "fin_term_vite"
    /\ IF vite_process # "null"
       THEN /\ viteAlive' = Terminate(viteAlive)
            /\ viteTerm' = viteTerm + 1
       ELSE UNCHANGED <<viteAlive, viteTerm>>
    /\ pc' = "fin_term_webview"
    /\ UNCHANGED <<variant, vite_process, webview_process, appAlive,
                   vite_output, pending>>
    /\ UNCHANGED envVars
    /\ UNCHANGED <<appSpawns, appTerm, terminating, terminated, markerRead,
                   readyReads>>
    /\ UNCHANGED histVars
    /\ UNCHANGED pkgVars
    /\ UNCHANGED cmdVars

\* builder.py 65-66 / __init__.py 208
TerminateWebview ==
    /\ pc = "fin_term_webview"
    /\ IF webview_process # "null"
       THEN /\ appAlive' = Terminate(appAlive)
            /\ appTerm' = appTerm + 1
       ELSE UNCHANGED <<appAlive, appTerm>>
    /\ pc' = "fin_terminated"
    /\ UNCHANGED <<variant, vite_process, webview_process, viteAlive,
                   vite_output, pending>>
    /\ UNCHANGED envVars
    /\ UNCHANGED <<appSpawns, viteTerm, terminating, terminated, markerRead,
                   readyReads>>
    /\ UNCHANGED histVars
    /\ UNCHANGED pkgVars
    /\ UNCHANGED cmdVars

\* builder.py 67 / __init__.py 209; an exception raised in the except clause
\* is re-raised once the finally block is through
FinallyTerminated ==
    /\ pc = "fin_terminated"
    /\ terminated' = terminated + 1
    /\ pc' = IF pending THEN "raised" ELSE "done"
    /\ UNCHANGED <<variant, vite_output, pending>>
    /\ UNCHANGED procVars
    /\ UNCHANGED envVars
    /\ UNCHANGED <<appSpawns, viteTerm, appTerm, terminating, markerRead,
                   readyReads>>
    /\ UNCHANGED histVars
    /\ UNCHANGED pkgVars
    /\ UNCHANGED cmdVars

\* ------------------------------------------------------------ environment
\* builder.py 50 / __init__.py 189: stderr=subprocess.PIPE, and no statement
\* of either supervisor reads that pipe.  The dev server writes a chunk to
\* its stderr; the write that finds the pipe full blocks the dev server.
ViteBlocked == errFill > PipeCap
DevWarn ==
    /\ viteAlive = "running"
    /\ ~ViteBlocked
    /\ errFill' = errFill + 1
    /\ UNCHANGED <<variant, pc, vite_output, pending>>
    /\ UNCHANGED procVars
    /\ UNCHANGED envVars
    /\ UNCHANGED countVars
    /\ UNCHANGED <<failure, strayInterrupts, reads, log>>
    /\ UNCHANGED pkgVars
    /\ UNCHANGED cmdVars

\* the dev server writes a line to its stdout
DevEmit ==
    /\ viteAlive = "running"
    /\ ~ViteBlocked
    /\ emitted < MaxLines
    /\ \E line \in Lines : pipe' = Append(pipe, line)
    /\ emitted' = emitted + 1
    /\ UNCHANGED <<variant, pc, vite_output, pending, interrupts>>
    /\ UNCHANGED procVars
    /\ UNCHANGED countVars
    /\ UNCHANGED histVars
    /\ UNCHANGED pkgVars
    /\ UNCHANGED cmdVars

\* the dev server exits on its own
ViteExits ==
    /\ viteAlive = "running"
    /\ ~ViteBlocked
    /\ viteAlive' = "exited"
    /\ UNCHANGED <<variant, pc, vite_process, webview_process, appAlive,
                   vite_output, pending>>
    /\ UNCHANGED envVars
    /\ UNCHANGED countVars
    /\ UNCHANGED histVars
    /\ UNCHANGED pkgVars
    /\ UNCHANGED cmdVars

\* the backend exits on its own
AppExits ==
    /\ appAlive = "running"
    /\ appAlive' = "exited"
    /\ UNCHANGED <<variant, pc, vite_process, webview_process, viteAlive,
                   vite_output, pending>>
    /\ UNCHANGED envVars
    /\ UNCHANGED countVars
    /\ UNCHANGED histVars
    /\ UNCHANGED pkgVars
    /\ UNCHANGED cmdVars

\* KeyboardInterrupt raised in the main thread at the current position:
\* inside the try body it is caught (builder.py 58, __init__.py 201); inside
\* the except clause the finally block still runs and the exception is
\* re-raised after it; inside the finally block, or before the try is
\* entered, it leaves run() at once.
OnInterruptNoHandler(p) == IF p = "except" THEN "fin_terminating" ELSE "raised"
OnInterrupt(p) ==
    IF p \in TryBody THEN "except"
    ELSE IF p = "except" THEN "fin_terminating"
    ELSE "raised"

Interrupt ==
    /\ pc \in TryBody \cup FinallyBody \cup PreTry \cup {"except"}
    /\ interrupts < MaxInterrupts
    /\ interrupts' = interrupts + 1
    /\ strayInterrupts' = strayInterrupts + (IF pc \in TryBody THEN 0 ELSE 1)
    /\ pc' = OnInterrupt(pc)
    /\ pending' = IF pc = "except" THEN TRUE ELSE pending
    /\ UNCHANGED <<variant, vite_output, pipe, emitted>>
    /\ UNCHANGED procVars
    /\ UNCHANGED countVars
    /\ UNCHANGED <<failure, reads, log, errFill>>
    /\ UNCHANGED pkgVars
    /\ UNCHANGED cmdVars

\* ------------------------------------------------------------ file system
\* A path is a sequence of components and a component a sequence of the
\* pieces an f-string puts together, so dist/myapp.exe is
\* <<<<"dist">>, <<"myapp", ".exe">>>>.  Relative paths start at the project
\* directory `cwd`, which is also the working directory of the process.
None == <<>>
Dist == <<<<"dist">>>>
Out == <<<<"out">>>>
Home == <<<<"~">>>>
IconFile == <<<<"icons">>, <<"icon.png">>>>

Names == {"myapp"}
Versions == {"1.0.0", "2.0"}
Archs == {"amd64"}
OutDirs == {Dist, Out}
IconArgs == {None, IconFile}
ExitCodes == {0, 1}

Parent(p) == SubSeq(p, 1, Len(p) - 1)
Prefixes(p) == {SubSeq(p, 1, k) : k \in 1..Len(p)}
IsUnder(q, p) == Len(q) >= Len(p) /\ SubSeq(q, 1, Len(p)) = p

\* os.path.isfile / Path.is_file
isfileAlways(f, p) == TRUE
isfile(f, p) == p \in f

\* Path.is_dir
is_dir(d, p) == p \in d

\* Path.mkdir(parents=True, exist_ok=True)
mkdir(d, p) == d \cup Prefixes(p)

\* shutil.rmtree
rmtree(S, p) == {q \in S : ~IsUnder(q, p)}

\* what a packager call leaves behind
Raise(f, d, exc, runs) ==
    [files |-> f, dirs |-> d, outcome |-> exc, toolRuns |-> runs,
     success |-> FALSE]
Return(f, d, runs) ==
    [files |-> f, dirs |-> d, outcome |-> "ok", toolRuns |-> runs,
     success |-> TRUE]

\* ------------------------------------------------------------- create_msi
\* installer.py 77-125.  ISCC writes <OutputDir>/<app>_installer.exe when it
\* exits zero (it creates OutputDir) and nothing otherwise.
create_msi(f, d, app_name, output_dir, icon_path, exit) ==
    LET installer_script_path == <<<<app_name, "_installer.iss">>>>
        binary_path == Dist \o <<<<app_name, ".exe">>>>
        f1 == f \cup {installer_script_path}
        artifact == output_dir \o <<<<app_name, "_installer", ".exe">>>>
    IN  IF ~isfile(f, binary_path)
        THEN Raise(f, d, "FileNotFoundError", 0)
        ELSE IF exit # 0
        THEN Raise(f1, d, "CalledProcessError", 1)
        ELSE Return(f1 \cup {artifact}, mkdir(d, output_dir), 1)

\* ------------------------------------------------------------- create_dmg
\* installer.py 170-223.  hdiutil / create-dmg are run through os.system,
\* whose return value is dropped; the tool writes the image when it exits
\* zero.
create_dmg(f, d, app_name, version, output_dir, icon, custom_layout, exit) ==
    LET app_bundle_path == Dist \o <<<<app_name, ".app">>>>
        dmg_output_path == output_dir \o <<<<app_name, "-", version, ".dmg">>>>
        dmg_temp_folder == <<<<"dmg_temp">>>>
        app_dest == dmg_temp_folder \o <<<<app_name, ".app">>>>
        applications_link == dmg_temp_folder \o <<<<"Applications">>>>
        d1 == mkdir(d, dmg_temp_folder)
        d2 == IF app_dest \in d1 \cup f THEN d1 ELSE d1 \cup {app_dest}
        f2 == IF applications_link \in d2 \cup f THEN f
              ELSE f \cup {applications_link}
        f3 == IF exit = 0 THEN f2 \cup {dmg_output_path} ELSE f2
    IN  IF ~is_dir(d, app_bundle_path)
        THEN Raise(f, d, "FileNotFoundError", 0)
        ELSE IF custom_layout /\ (icon = None \/ ~isfile(f2, icon))
        THEN Raise(f2, d2, "ValueError", 0)
        ELSE Return(rmtree(f3, dmg_temp_folder), rmtree(d2, dmg_temp_folder),
                    1)

\* installer.py 176-195, 221: the content of the staging folder.  The bundle
\* is copied only when dmg_temp/<app>.app is not there (lines 184-186); the
\* tool is given the folder as it then is; the folder is removed after the
\* tool (line 221), so not on the paths that raise.  `b` is the build at
\* dist/<app>.app and `s` the build of the copy in dmg_temp.
NoImage == [made |-> FALSE, copy |-> 0, source |-> 0]
stage_dmg(f, d, app_name, icon, custom_layout, b, s) ==
    LET app_bundle_path == Dist \o <<<<app_name, ".app">>>>
        dmg_temp_folder == <<<<"dmg_temp">>>>
        app_dest == dmg_temp_folder \o <<<<app_name, ".app">>>>
        applications_link == dmg_temp_folder \o <<<<"Applications">>>>
        s1 == IF app_dest \in d \cup f THEN s ELSE b
        f2 == IF applications_link \in d \cup f THEN f
              ELSE f \cup {applications_link}
    IN  IF ~is_dir(d, app_bundle_path)
        THEN [staged |-> s, image |-> NoImage]
        ELSE IF custom_layout /\ (icon = None \/ ~isfile(f2, icon))
        THEN [staged |-> s1, image |-> NoImage]
        ELSE [staged |-> 0,
              image |-> [made |-> TRUE, copy |-> s1, source |-> b]]

\* ------------------------------------------------------------- create_deb
\* installer.py 318: f"{app_name}_{version}_{architecture}.deb"
DebFileNameDashed(app_name, version, architecture) ==
    <<app_name, "-", version, "-", architecture, ".deb">>
DebFileName(app_name, version, architecture) ==
    <<app_name, "_", version, "_", architecture, ".deb">>

\* installer.py 256-323.  dpkg-deb --build <root_dir> writes <root_dir>.deb
\* when it exits zero and nothing otherwise.
create_deb(f, d, app_name, version, architecture, output_dir, icon_path, exit) ==
    LET root_dir == Dist \o <<<<"linux">>, <<app_name>>>>
        debian_dir == root_dir \o <<<<"DEBIAN">>>>
        bin_dir == root_dir \o <<<<"usr">>, <<"local">>, <<"bin">>>>
        desktop_dir == root_dir \o <<<<"usr">>, <<"share">>,
                                     <<"applications">>>>
        icon_dir == root_dir \o <<<<"usr">>, <<"share">>, <<"icons">>,
                                  <<"hicolor">>, <<"512x512">>, <<"apps">>>>
        d1 == mkdir(mkdir(mkdir(d, debian_dir), bin_dir), desktop_dir)
        d2 == IF icon_path # None THEN mkdir(d1, icon_dir) ELSE d1
        binary_path == Dist \o <<<<app_name>>>>
        f1 == f \cup {bin_dir \o <<<<app_name>>>>,
                      debian_dir \o <<<<"control">>>>,
                      desktop_dir \o <<<<app_name, ".desktop">>>>}
        f2 == IF icon_path # None
              THEN f1 \cup {icon_dir \o <<<<app_name, ".png">>>>}
              ELSE f1
        built == Parent(root_dir) \o <<<<app_name, ".deb">>>>
        f3 == f2 \cup {built}
        output_deb_file ==
            output_dir \o <<DebFileName(app_name, version, architecture)>>
        f4 == (f3 \ {built}) \cup {output_deb_file}
    IN  IF ~isfile(f, binary_path)
        THEN Raise(f, d2, "FileNotFoundError", 0)
        ELSE IF icon_path # None /\ ~isfile(f1, icon_path)
        THEN Raise(f1, d2, "FileNotFoundError", 0)
        ELSE IF exit # 0
        THEN Raise(f2, d2, "CalledProcessError", 1)
        ELSE IF ~is_dir(d2, output_dir)
        THEN Raise(f3, d2, "FileNotFoundError", 1)
        ELSE Return(rmtree(f4, Parent(root_dir)),
                    rmtree(d2, Parent(root_dir)), 1)

\* ------------------------------------------------------------- create_rpm
\* installer.py 354-428.  rpmbuild -ba writes
\* RPMS/<arch>/<name>-<version>-<release>.<arch>.rpm when it exits zero.
create_rpm(f, d, app_name, version, architecture, output_dir, icon_path, exit) ==
    LET rpm_build_dir == Home \o <<<<"rpmbuild">>>>
        sources_dir == rpm_build_dir \o <<<<"SOURCES">>>>
        specs_dir == rpm_build_dir \o <<<<"SPECS">>>>
        rpm_dir == rpm_build_dir \o <<<<"RPMS">>, <<architecture>>>>
        binary_path == Dist \o <<<<app_name>>>>
        d1 == mkdir(mkdir(mkdir(d, sources_dir), specs_dir), rpm_dir)
        f1 == f \cup {sources_dir \o <<<<app_name>>>>,
                      sources_dir \o <<<<app_name, ".desktop">>>>}
        icon_target_dir == sources_dir \o <<<<"icons">>, <<"hicolor">>,
                                             <<"512x512">>, <<"apps">>>>
        d2 == IF icon_path # None THEN mkdir(d1, icon_target_dir) ELSE d1
        f2 == IF icon_path # None
              THEN f1 \cup {icon_target_dir \o <<<<app_name, ".png">>>>}
              ELSE f1
        f3 == f2 \cup {specs_dir \o <<<<app_name, ".spec">>>>}
        rpm_name == <<app_name, "-", version, "-", "1", ".", architecture,
                      ".rpm">>
        rpm_package_file == rpm_dir \o <<rpm_name>>
        f4 == f3 \cup {rpm_package_file}
        f5 == (f4 \ {rpm_package_file}) \cup {output_dir \o <<rpm_name>>}
    IN  IF ~isfile(f, binary_path)
        THEN Raise(f, d1, "FileNotFoundError", 0)
        ELSE IF icon_path # None /\ ~isfile(f1, icon_path)
        THEN Raise(f1, d1, "FileNotFoundError", 0)
        ELSE IF exit # 0
        THEN Raise(f3, d2, "CalledProcessError", 1)
        ELSE IF ~is_dir(d2, output_dir)
        THEN Raise(f4, d2, "FileNotFoundError", 1)
        ELSE Return(f5, d2, 1)

\* ------------------------------------------------------- packager actions
NoCall ==
    [target |-> "none", name |-> "", version |-> "", arch |-> "",
     icon |-> None, custom |-> FALSE, outdir |-> None, toolExit |-> 0,
     toolRuns |-> 0, outcome |-> "none", success |-> FALSE,
     host |-> "direct", debian |-> FALSE, redhat |-> FALSE, deps |-> "ok"]

Record(target, app_name, version, architecture, output_dir, icon, custom_layout, exit, r) ==
    /\ files' = r.files
    /\ dirs' = r.dirs
    /\ files0' = files
    /\ dirs0' = dirs
    /\ call' = [target |-> target, name |-> app_name, version |-> version,
                arch |-> architecture, icon |-> icon,
                custom |-> custom_layout, outdir |-> output_dir,
                toolExit |-> IF r.toolRuns > 0 THEN exit ELSE 0,
                toolRuns |-> r.toolRuns, outcome |-> r.outcome,
                success |-> r.success, host |-> "direct", debian |-> FALSE,
                redhat |-> FALSE, deps |-> "ok"]
    /\ calls' = calls + 1
    /\ UNCHANGED supVars
    /\ UNCHANGED cmdVars

CreateMsi ==
    /\ calls < MaxCalls
    /\ \E app_name \in Names, output_dir \in OutDirs, icon_path \in IconArgs,
          exit \in ExitCodes :
          Record("msi", app_name, "1.0.0", "", output_dir, icon_path, FALSE,
                 exit,
                 create_msi(files, dirs, app_name, output_dir, icon_path,
                            exit))
    /\ image' = NoImage
    /\ UNCHANGED <<bundle, staged>>

CreateDmg ==
    /\ calls < MaxCalls
    /\ \E app_name \in Names, version \in Versions, output_dir \in OutDirs,
          icon \in IconArgs, custom_layout \in BOOLEAN, exit \in ExitCodes :
          /\ exit = 0 => is_dir(dirs, output_dir)
          /\ Record("dmg", app_name, version, "", output_dir, icon,
                    custom_layout, exit,
                    create_dmg(files, dirs, app_name, version, output_dir,
                               icon, custom_layout, exit))
          /\ LET st == stage_dmg(files, dirs, app_name, icon, custom_layout,
                                 bundle, staged)
             IN  /\ staged' = st.staged
                 /\ image' = st.image
    /\ UNCHANGED bundle

CreateDeb ==
    /\ calls < MaxCalls
    /\ \E app_name \in Names, version \in Versions, architecture \in Archs,
          output_dir \in OutDirs, icon_path \in IconArgs, exit \in ExitCodes :
          Record("deb", app_name, version, architecture, output_dir,
                 icon_path, FALSE, exit,
                 create_deb(files, dirs, app_name, version, architecture,
                            output_dir, icon_path, exit))
    /\ image' = NoImage
    /\ UNCHANGED <<bundle, staged>>

CreateRpm ==
    /\ calls < MaxCalls
    /\ \E app_name \in Names, version \in Versions, architecture \in Archs,
          output_dir \in OutDirs, icon_path \in IconArgs, exit \in ExitCodes :
          Record("rpm", app_name, version, architecture, output_dir,
                 icon_path, FALSE, exit,
                 create_rpm(files, dirs, app_name, version, architecture,
                            output_dir, icon_path, exit))
    /\ image' = NoImage
    /\ UNCHANGED <<bundle, staged>>

\* builder.py 113-124: the project is frozen again; pyinstaller --windowed
\* --noconfirm writes dist/<name>.app anew
Rebuild ==
    /\ bundle < MaxBuilds
    /\ bundle' = bundle + 1
    /\ \E app_name \in Names :
          dirs' = mkdir(dirs, Dist \o <<<<app_name, ".app">>>>)
    /\ UNCHANGED <<files, files0, dirs0, call, calls, staged, image>>
    /\ UNCHANGED supVars
    /\ UNCHANGED cmdVars

\* ------------------------------------------------------ project config
\* A mapping is a function whose domain holds the keys that are present.
EmptyMap == <<>>
NoValue == "None"
OsKeys == {"windows", "darwin", "linux"}
IconVals == {"a.png", "b.png"}
Hosts == {"Linux", "Darwin", "Windows", "Java"}
IconMaps == UNION {[S -> IconVals] : S \in SUBSET OsKeys}
NameMaps == {EmptyMap, "name" :> "myapp"}
Configs ==
    {n @@ i : n \in NameMaps,
              i \in {EmptyMap} \cup {"icons" :> m : m \in IconMaps}}

\* dict.get(key, default)
Get(m, k, default) == IF k \in DOMAIN m THEN m[k] ELSE default

\* ------------------------------------------------------------------- pack
\* directories the process can be in; <cwd>/app is the front-end project
Project == <<"project">>
Elsewhere == <<"elsewhere">>
ExistingDirs == {Project, Append(Project, "app"), Elsewhere}
NoDir == <<>>

PackResult(outcome, w0, w, buildWd, name) ==
    [outcome |-> outcome, from |-> w0, wd |-> w, buildWd |-> buildWd,
     name |-> name, by |-> "builder"]
NotPacked == PackResult("none", NoDir, NoDir, NoDir, NoValue)

\* builder.py 101-124: PyWuiBuilder.pack; cwd is self.cwd, w the working
\* directory of the process, pip/build/freeze the exit codes of the three
\* commands (pip runs only when pyinstaller cannot be imported)
pack(cwd, cfg, w, pip, build, freeze) ==
    LET app == Append(cwd, "app")
        name == Get(cfg, "name", "pywui")
    IN  IF pip # 0
        THEN PackResult("CalledProcessError", w, w, NoDir, NoValue)
        ELSE IF app \notin ExistingDirs
        THEN PackResult("FileNotFoundError", w, w, NoDir, NoValue)
        ELSE IF build # 0
        THEN PackResult("CalledProcessError", w, app, app, NoValue)
        ELSE IF freeze # 0
        THEN PackResult("CalledProcessError", w, cwd, app, name)
        ELSE PackResult("ok", w, cwd, app, name)

\* ------------------------------------------------------------ _load_config
CfgKinds == {"missing", "object", "malformed", "undecodable", "unreadable",
             "directory"}
LoadResult(outcome, value) == [outcome |-> outcome, value |-> value]
NotLoaded == LoadResult("none", EmptyMap)

\* __init__.py 89-97: os.path.exists is true of anything at the path;
\* open() fails on a directory and on a file the user may not read; reading
\* fails on bytes that are not text; ujson.load fails on text that is not
\* JSON, and only that failure is caught
load_config(kind, cfg) ==
    IF kind = "missing" THEN LoadResult("ok", EmptyMap)
    ELSE IF kind = "directory" THEN LoadResult("IsADirectoryError", EmptyMap)
    ELSE IF kind = "unreadable" THEN LoadResult("PermissionError", EmptyMap)
    ELSE IF kind = "undecodable"
    THEN LoadResult("UnicodeDecodeError", EmptyMap)
    ELSE IF kind = "malformed" THEN LoadResult("ok", EmptyMap)
    ELSE LoadResult("ok", cfg)

\* __init__.py 129-160: the pack command; the descriptor is loaded from the
\* working directory after the build
pack_cli(kind, cfg, w, pip, build, freeze) ==
    LET current == w
        app == Append(current, "app")
        l == load_config(kind, cfg)
        name == Get(l.value, "name", "pywui")
    IN  IF pip # 0
        THEN PackResult("CalledProcessError", w, w, NoDir, NoValue)
        ELSE IF app \notin ExistingDirs
        THEN PackResult("FileNotFoundError", w, w, NoDir, NoValue)
        ELSE IF build # 0
        THEN PackResult("CalledProcessError", w, app, app, NoValue)
        ELSE IF l.outcome # "ok"
        THEN PackResult(l.outcome, w, current, app, NoValue)
        ELSE IF freeze # 0
        THEN PackResult("CalledProcessError", w, current, app, name)
        ELSE PackResult("ok", w, current, app, name)

\* ---------------------------------------------------------------- _get_icon
\* str.lower on the names platform.system() returns
Lower(system) ==
    CASE system = "Linux" -> "linux"
      [] system = "Darwin" -> "darwin"
      [] system = "Windows" -> "windows"
      [] system = "Java" -> "java"

\* builder.py 69-72 / __init__.py 100-103
get_iconNoFallback(cfg, system) ==
    Get(Get(cfg, "icons", EmptyMap), Lower(system), NoValue)
get_icon(cfg, system) ==
    LET current_os == Lower(system)
        icons == Get(cfg, "icons", EmptyMap)
    IN  Get(icons, current_os, Get(icons, "linux", NoValue))

\* builder.py 75: the name create_installer passes to the packagers
installer_name(cfg) == Get(cfg, "name", "pywuiapp")

\* ------------------------------------------------------- create_installer
\* installer.py 27-52: install_dependencies installs a missing binding with
\* pip or apt-get on macOS and on Debian and Red Hat systems; `deps` is
\* "fail" when that command exits non-zero
NeedsInstall(system, debian, redhat) ==
    \/ system = "Darwin"
    \/ system = "Linux" /\ (debian \/ redhat)

\* builder.py 74-99.  The macOS branch calls create_dmg with a keyword
\* `badge` that create_dmg (installer.py 152-159) does not take, which is a
\* TypeError before create_dmg runs.
create_installer(f, d, cfg, system, debian, redhat, deps, exit) ==
    LET name == installer_name(cfg)
        Sel(target, r) == [target |-> target, name |-> name, r |-> r]
    IN  IF deps = "fail" /\ NeedsInstall(system, debian, redhat)
        THEN Sel("none", Raise(f, d, "CalledProcessError", 0))
        ELSE IF system = "Windows"
        THEN Sel("msi", create_msi(f, d, name, Dist, None, exit))
        ELSE IF system = "Darwin"
        THEN Sel("none", Raise(f, d, "TypeError", 0))
        ELSE IF system = "Linux" /\ debian
        THEN Sel("deb", create_deb(f, d, name, "1.0.0", "amd64", Dist, None,
                                   exit))
        ELSE IF system = "Linux" /\ redhat
        THEN Sel("rpm", create_rpm(f, d, name, "1.0.0", "x86_64", Dist, None,
                                   exit))
        ELSE Sel("none", [Return(f, d, 0) EXCEPT !.success = FALSE])

\* builder.py 74-99, on any host
CreateInstaller ==
    /\ calls < MaxCalls
    /\ \E cfg \in NameMaps, system \in Hosts, debian \in BOOLEAN,
          redhat \in BOOLEAN, deps \in {"ok", "fail"}, exit \in ExitCodes :
          LET c == create_installer(files, dirs, cfg, system, debian, redhat,
                                    deps, exit)
              ran == c.target # "none"
          IN  /\ files' = c.r.files
              /\ dirs' = c.r.dirs
              /\ call' = [target |-> c.target, name |-> c.name,
                          version |-> IF ran THEN "1.0.0" ELSE "",
                          arch |-> IF c.target = "deb" THEN "amd64"
                                   ELSE IF c.target = "rpm" THEN "x86_64"
                                   ELSE "",
                          icon |-> None, custom |-> FALSE,
                          outdir |-> IF ran THEN Dist ELSE None,
                          toolExit |-> IF c.r.toolRuns > 0 THEN exit ELSE 0,
                          toolRuns |-> c.r.toolRuns,
                          outcome |-> c.r.outcome, success |-> c.r.success,
                          host |-> system, debian |-> debian,
                          redhat |-> redhat,
                          deps |-> IF NeedsInstall(system, debian, redhat)
                                   THEN deps ELSE "ok"]
    /\ files0' = files
    /\ dirs0' = dirs
    /\ calls' = calls + 1
    /\ image' = NoImage
    /\ UNCHANGED <<bundle, staged>>
    /\ UNCHANGED supVars
    /\ UNCHANGED cmdVars

\* builder.py 101-124, called on a builder made for the project directory,
\* which is where the process is (the relative paths of lines 118-120 and
\* of the packagers' output_dir count on it)
Pack ==
    /\ packed = NotPacked
    /\ wd = Project
    /\ \E pip \in ExitCodes, build \in ExitCodes, freeze \in ExitCodes :
          packed' = pack(Project, config, wd, pip, build, freeze)
    /\ wd' = packed'.wd
    /\ UNCHANGED <<config, cfgKind, host, loaded, iconResult, appName>>
    /\ UNCHANGED supVars
    /\ UNCHANGED pkgVars

\* __init__.py 129-160
PackCli ==
    /\ packed = NotPacked
    /\ \E pip \in ExitCodes, build \in ExitCodes, freeze \in ExitCodes :
          packed' = [pack_cli(cfgKind, config, wd, pip, build, freeze)
                        EXCEPT !.by = "cli"]
    /\ wd' = packed'.wd
    /\ UNCHANGED <<config, cfgKind, host, loaded, iconResult, appName>>
    /\ UNCHANGED supVars
    /\ UNCHANGED pkgVars

\* builder.py 69-72 / __init__.py 100-103
GetIcon ==
    /\ iconResult = "unset"
    /\ iconResult' = get_icon(config, host)
    /\ UNCHANGED <<config, cfgKind, host, wd, loaded, packed, appName>>
    /\ UNCHANGED supVars
    /\ UNCHANGED pkgVars

\* builder.py 75
InstallerName ==
    /\ appName = "unset"
    /\ appName' = installer_name(config)
    /\ UNCHANGED <<config, cfgKind, host, wd, loaded, iconResult, packed>>
    /\ UNCHANGED supVars
    /\ UNCHANGED pkgVars

\* __init__.py 89-97
LoadConfig ==
    /\ loaded = NotLoaded
    /\ loaded' = load_config(cfgKind, config)
    /\ UNCHANGED <<config, cfgKind, host, wd, iconResult, packed, appName>>
    /\ UNCHANGED supVars
    /\ UNCHANGED pkgVars

CmdIdle ==
    /\ config = EmptyMap
    /\ cfgKind = "missing"
    /\ host = "Linux"
    /\ wd = Project
    /\ loaded = NotLoaded
    /\ iconResult = "unset"
    /\ packed = NotPacked
    /\ appName = "unset"

\* --------------------------------------------------------- specifications
PkgIdle ==
    /\ files = {}
    /\ dirs = {}
    /\ files0 = {}
    /\ dirs0 = {}
    /\ call = NoCall
    /\ calls = 0
    /\ bundle = 0
    /\ staged = 0
    /\ image = NoImage

\* a run session
Init == SupInit /\ PkgIdle /\ CmdIdle

Supervisor ==
    \/ SpawnVite \/ SpawnPython \/ EnterTry
    \/ PollVite \/ PollApp \/ Readline \/ CheckLine
    \/ GraceSleep \/ SpawnWebview \/ EchoLine \/ LoopSleep
    \/ ExceptHandler \/ FinallyTerminating \/ TerminateVite
    \/ TerminateWebview \/ FinallyTerminated

Next ==
    \/ SpawnVite \/ SpawnPython \/ EnterTry
    \/ PollVite \/ PollApp \/ Readline \/ CheckLine
    \/ GraceSleep \/ SpawnWebview \/ EchoLine \/ LoopSleep
    \/ ExceptHandler \/ FinallyTerminating \/ TerminateVite
    \/ TerminateWebview \/ FinallyTerminated
    \/ DevEmit \/ DevWarn \/ ViteExits \/ AppExits \/ Interrupt

Spec == Init /\ [][Next]_vars

\* the supervisor's own loop always gets to run; the children and the
\* operator owe nothing
FairSpec == Spec /\ WF_vars(Supervisor)

\* a project directory before packaging: any of the staged inputs, the icon,
\* an output directory and another app's tree under dist/linux may be there
SeedFiles ==
    {Dist \o <<<<n>>>> : n \in Names}
        \cup {Dist \o <<<<n, ".exe">>>> : n \in Names}
        \cup {IconFile}
SeedDirs ==
    {Dist \o <<<<n, ".app">>>> : n \in Names}
        \cup {Out, Dist \o <<<<"linux">>, <<"other">>>>}

PackInit ==
    /\ SupInit
    /\ variant = "builder"
    /\ files \in SUBSET SeedFiles
    /\ \E sd \in SUBSET SeedDirs :
          dirs = UNION {Prefixes(p) : p \in sd}
                   \cup UNION {Prefixes(Parent(p)) : p \in files}
    /\ files0 = files
    /\ dirs0 = dirs
    /\ call = NoCall
    /\ calls = 0
    /\ bundle = IF \E n \in Names : Dist \o <<<<n, ".app">>>> \in dirs
                THEN 1 ELSE 0
    /\ staged = 0
    /\ image = NoImage
    /\ CmdIdle

PackNext == CreateMsi \/ CreateDmg \/ CreateDeb \/ CreateRpm

PackSpec == PackInit /\ [][PackNext]_vars

\* the same projects, packaged through create_installer
InstallerNext == CreateInstaller

InstallerSpec == PackInit /\ [][InstallerNext]_vars

\* the same projects, frozen again between calls of the macOS packager
DmgNext == CreateDmg \/ Rebuild

DmgSpec == PackInit /\ [][DmgNext]_vars

\* one invocation of the commands on a project: any config, any descriptor
\* file, any host, started in the project directory or somewhere else
CmdInit ==
    /\ SupInit
    /\ variant = "builder"
    /\ PkgIdle
    /\ config \in Configs
    /\ cfgKind \in CfgKinds
    /\ host \in Hosts
    /\ wd \in {Project, Elsewhere}
    /\ loaded = NotLoaded
    /\ iconResult = "unset"
    /\ packed = NotPacked
    /\ appName = "unset"

CmdNext == Pack \/ PackCli \/ LoadConfig \/ GetIcon \/ InstallerName

CmdSpec == CmdInit /\ [][CmdNext]_vars

TypeOK ==
    /\ variant \in {"builder", "cli"}
    /\ pc \in TryBody \cup FinallyBody \cup PreTry \cup Ended
              \cup {"start", "except"}
    /\ vite_process \in {"null", "set"}
    /\ webview_process \in {"null", "set"}
    /\ viteAlive \in {"none", "running", "exited", "terminated"}
    /\ appAlive \in {"none", "running", "exited", "terminated"}
    /\ Len(pipe) <= MaxLines
    /\ vite_output \in Lines \cup {EOF}
    /\ files \cap dirs = {}
    /\ calls <= MaxCalls
    /\ bundle \in 0..MaxBuilds
    /\ staged \in 0..MaxBuilds

\* ------------------------------------------------------------------ claims
\* C1: the backend is not spawned (its handle stays null) until a dev-server
\* line containing "Local:" or "Network:" has been read; a session whose dev
\* server never writes such a line never spawns the backend.
C1_BackendAfterReady == webview_process # "null" => markerRead

\* C2: the backend is spawned at most once in a session, however many
\* readiness-marker lines the dev server writes.
C2_SpawnAtMostOnce == appSpawns <= 1

\* two ready lines have been read by the builder's loop and acted upon
C2_Witness ==
    /\ variant = "builder"
    /\ readyReads >= 2
    /\ appSpawns = 1
    /\ pc = "poll_vite"

\* C3: when a session that was interrupted after the dev-server spawn has
\* ended, every handle that was created has been terminated exactly once and
\* a handle that was never created has not been terminated.
C3_InterruptTerminatesAll ==
    (interrupts > 0 /\ pc \in Ended) =>
        /\ vite_process # "null" => viteTerm = 1
        /\ webview_process # "null" => appTerm = 1
        /\ webview_process = "null" => appTerm = 0

\* C4: once both processes run, the exit of either one leads to the other
\* one being terminated by the supervisor (unless an interrupt ends the
\* session first), given only that the supervisor's loop is scheduled.
BothSpawned ==
    /\ vite_process # "null"
    /\ webview_process # "null"
    /\ pc \in TryBody \cup PreTry
C4_ExitDetected ==
    /\ (BothSpawned /\ appAlive = "exited")
           ~> (viteAlive # "running" \/ interrupts > 0)
    /\ (BothSpawned /\ viteAlive = "exited")
           ~> (appAlive # "running" \/ interrupts > 0)

\* C5: whatever ends the session, when run() is left the shutdown sequence
\* has run exactly once: each existing handle terminated once, "Terminating"
\* and the final "Terminated" emitted once.
C5_ShutdownExactlyOnce ==
    pc \in Ended =>
        /\ terminating = 1
        /\ terminated = 1
        /\ vite_process # "null" => viteTerm = 1
        /\ webview_process # "null" => appTerm = 1

\* the staged binary or bundle the last call needs was there when it began
StagedPresent0 ==
    CASE call.target = "msi" ->
             Dist \o <<<<call.name, ".exe">>>> \in files0
      [] call.target = "dmg" ->
             Dist \o <<<<call.name, ".app">>>> \in dirs0
      [] OTHER -> Dist \o <<<<call.name>>>> \in files0

\* C6: for every target, a packager called without its staged binary or
\* bundle fails with the precondition error and leaves the file system as
\* it found it.
C6_NoMutationWhenBinaryAbsent ==
    (call.target # "none" /\ ~StagedPresent0) =>
        /\ call.outcome = "FileNotFoundError"
        /\ files = files0
        /\ dirs = dirs0

\* the icon is an input the last call needs: the background of a custom
\* DMG layout, the icon a DEB or RPM packs; create_msi only writes the
\* icon's path into the script text
IconRequired ==
    \/ call.target = "dmg" /\ call.custom
    \/ call.target \in {"deb", "rpm"} /\ call.icon # None
InputsPresent0 ==
    /\ StagedPresent0
    /\ IconRequired => (call.icon # None /\ call.icon \in files0)

\* C7: for every target, a call with a required input missing fails with
\* the precondition error without running the native tool, so the tool only
\* ever runs with the staged binary/bundle and the required icon on disk.
C7_ToolNeedsInputs ==
    (call.target # "none" /\ ~InputsPresent0) =>
        /\ call.outcome \in {"FileNotFoundError", "ValueError"}
        /\ call.toolRuns = 0

\* the Debian packager ran dpkg-deb with a binary and an icon to pack
C7_Witness ==
    /\ call.target = "deb"
    /\ call.icon = IconFile
    /\ call.toolRuns = 1
    /\ InputsPresent0

\* the staging directories a packager makes for itself
StagingRoots ==
    CASE call.target = "deb" -> {Dist \o <<<<"linux">>, <<call.name>>>>}
      [] call.target = "dmg" -> {<<<<"dmg_temp">>>>}
      [] call.target = "rpm" -> {Home \o <<<<"rpmbuild">>>>}
      [] OTHER -> {}

\* C8: when a packager call fails, nothing the call created under its
\* staging directories is left on disk.
C8_StagingRemovedOnFailure ==
    call.outcome \notin {"ok", "none"} =>
        \A p \in (files \cup dirs) \ (files0 \cup dirs0) :
            \A root \in StagingRoots : ~IsUnder(p, root)

\* C9: a native tool that exits non-zero makes the packager fail with the
\* tool error and not report success; a call runs at most one native tool.
C9_ToolFailureIsError ==
    /\ call.toolRuns <= 1
    /\ (call.toolRuns > 0 /\ call.toolExit # 0) =>
           (call.outcome = "CalledProcessError" /\ ~call.success)

C11_WorkingDirRestored ==
    packed.outcome # "none" =>
        /\ packed.buildWd # NoDir => packed.buildWd = Append(Project, "app")
        /\ wd = packed.from

\* C12: a Popen that raises ends the session at once: run() is left with
\* the exception, the spawn is not tried again, and no child that was
\* spawned is still running.
C12_SpawnFailureIsFatal ==
    (failure # "none" /\ pc \in Ended /\ interrupts = 0) =>
        /\ pc = "raised"
        /\ failure = "app" => appSpawns = 0
        /\ viteAlive # "running"
        /\ appAlive # "running"

\* C13: _load_config never raises: it returns the mapping stored in the
\* descriptor, and the empty mapping when the descriptor is missing or its
\* content is no good.
C13_LoadConfigNeverRaises ==
    loaded.outcome # "none" =>
        /\ loaded.outcome = "ok"
        /\ loaded.value = IF cfgKind = "object" THEN config ELSE EmptyMap

\* C14: _get_icon returns the icons entry under the lower-cased host name
\* when there is one, else the entry under "linux" when there is one, else
\* nothing; a config without an icons key gives nothing.
HostKey ==
    CASE host = "Linux" -> "linux"
      [] host = "Darwin" -> "darwin"
      [] host = "Windows" -> "windows"
      [] OTHER -> "java"
C14_IconFallsBackToLinux ==
    iconResult # "unset" =>
        iconResult =
            IF "icons" \notin DOMAIN config THEN NoValue
            ELSE IF HostKey \in DOMAIN config["icons"]
            THEN config["icons"][HostKey]
            ELSE IF "linux" \in DOMAIN config["icons"]
            THEN config["icons"]["linux"]
            ELSE NoValue

\* icons {"darwin": "a.png", "linux": "b.png"} on a Windows host gives b.png
C14_Witness ==
    /\ host = "Windows"
    /\ "icons" \in DOMAIN config
    /\ config["icons"] = ("darwin" :> "a.png") @@ ("linux" :> "b.png")
    /\ iconResult = "b.png"

\* the packager that goes with a host
Expected(system, debian, redhat) ==
    CASE system = "Windows" -> "msi"
      [] system = "Darwin" -> "dmg"
      [] system = "Linux" /\ debian -> "deb"
      [] system = "Linux" /\ ~debian /\ redhat -> "rpm"
      [] OTHER -> "none"

\* C15: create_installer runs the packager that goes with the host (MSI on
\* Windows, DMG on Darwin, DEB on Linux with /etc/debian_version, RPM on
\* Linux with only /etc/redhat-release) and, on any other host, no packager
\* and no native tool.
C15_InstallerDispatch ==
    (call.host # "direct" /\ call.deps = "ok") =>
        /\ call.target = Expected(call.host, call.debian, call.redhat)
        /\ call.target = "none" => call.toolRuns = 0

\* C16: while the backend is not spawned, the first line read that holds
\* "Local:" or "Network:" gets the backend spawned before the supervisor
\* reads another line: the supervisor is never about to read with a marker
\* line behind it and no backend handle.
C16_MarkerLineSpawnsBackend ==
    (pc = "readline" /\ markerRead) => webview_process = "set"

\* C17: a KeyboardInterrupt delivered while the supervisor is in its loop
\* (waiting for readiness or with both processes running) does not leave
\* run() as an exception: it is caught, the shutdown path runs once and
\* run() returns.  So a session whose interrupts all came inside the try
\* body, and whose spawns all went through, does not end by raising, and
\* where it has ended it has been through the whole shutdown path.
C17_LoopInterruptIsCaught ==
    (strayInterrupts = 0 /\ failure = "none") =>
        /\ pc # "raised"
        /\ (pc = "done" /\ interrupts > 0) =>
               /\ terminating = 1
               /\ terminated = 1
               /\ viteTerm = 1

\* an interrupted session that returned
C17_Witness ==
    /\ pc = "done"
    /\ interrupts = 1
    /\ strayInterrupts = 0
    /\ failure = "none"
    /\ appSpawns = 1

\* what the log holds once every line of `rs` has been forwarded
NonEmpty(rs) == SelectSeq(rs, LAMBDA r : r # EOF)
Tagged(r) == <<"[Vite]", "SP">> \o Strip(r)
Forwarded(rs) == [i \in 1..Len(NonEmpty(rs)) |-> Tagged(NonEmpty(rs)[i])]
InLoop == {"poll_vite", "poll_app", "readline", "loop_sleep"}

\* C18 as stated: every non-empty line read is forwarded exactly once, in
\* the order read and under the "[Vite]" tag, so a session that has
\* returned has forwarded every line it read.
C18_EveryLineForwarded ==
    pc = "done" => log = Forwarded(reads)

\* C18 amended: the log is at every moment the forwarded form of the lines
\* read, in order, short of at most the line read last; it is the whole of
\* it whenever the supervisor is between two passes of its loop; and a step
\* that follows an empty read forwards nothing and stays in the loop unless
\* an interrupt takes it out.
C18_ForwardedInOrder ==
    /\ [](\/ log = Forwarded(reads)
          \/ /\ reads # <<>>
             /\ reads[Len(reads)] # EOF
             /\ log = Forwarded(SubSeq(reads, 1, Len(reads) - 1)))
    /\ [](pc \in InLoop => log = Forwarded(reads))
    /\ [][(pc = "check" /\ vite_output = EOF /\ pc' # pc) =>
             /\ log' = log
             /\ pc' \in InLoop \cup {"except"}]_vars

\* two lines read and forwarded, a blank one among them, then an empty read
C18_Witness ==
    /\ pc \in InLoop
    /\ Len(reads) = 3
    /\ reads[1] = LocalLine
    /\ reads[2] = BlankLine
    /\ reads[3] = EOF
    /\ log = <<<<"[Vite]", "SP", "Local:", "SP", "x">>, <<"[Vite]", "SP">>>>

\* C19: whatever the config, the name pack gives the frozen backend is the
\* name under which create_installer looks for the staged binary.
C19_PackNameIsInstallerName ==
    (/\ packed.name # NoValue
     /\ appName # "unset"
     /\ (packed.by = "builder" \/ cfgKind = "object")) =>
        packed.name = appName

\* C20: no child stays blocked forever on a full output pipe: a dev server
\* that is blocked writing to its captured stderr is in time unblocked by a
\* drain of the pipe, unless the dev server is ended or the operator
\* interrupts the session first.
C20_NoChildBlockedForever ==
    (viteAlive = "running" /\ ViteBlocked)
        ~> (~ViteBlocked \/ viteAlive # "running" \/ interrupts > 0)

\* the staging parent of the Debian packager and what a call owns below it
LinuxDir == Dist \o <<<<"linux">>>>
OwnedByDeb(q) ==
    \/ IsUnder(q, LinuxDir \o <<<<call.name>>>>)
    \/ q = LinuxDir \o <<<<call.name, ".deb">>>>

\* C21: a Debian packager call removes, below dist/linux, only its own
\* staging tree dist/linux/<app_name> and the .deb it built there: every
\* other file or directory that was below dist/linux when the call began
\* is still there, as a file or as a directory, when it ends.
C21_DebCleanupIsLocal ==
    call.target = "deb" =>
        \A q \in files0 \cup dirs0 :
            (IsUnder(q, LinuxDir) /\ q # LinuxDir /\ ~OwnedByDeb(q)) =>
                /\ q \in files0 => q \in files
                /\ q \in dirs0 => q \in dirs

\* C22: whatever macOS packager calls came before on the project, failed
\* ones included, the bundle in dmg_temp at the moment the disk-image tool
\* is run is a copy of the bundle that is at dist/<app_name>.app at that
\* moment.
C22_StagedBundleIsCurrent ==
    (call.target = "dmg" /\ image.made) => image.copy = image.source
====
